---- MODULE Spec2Model ----
(***************************************************************************)
(* Pomodoro timer: the host window (PomodoroWindow, main_window.py), the   *)
(* countdown worker (Worker, worker.py) running on its own QThread, and    *)
(* the round progress indicator (QRoundProgressBar, progressbar.py).       *)
(*                                                                         *)
(* Threads.  The UI thread runs the handlers of PomodoroWindow, one at a   *)
(* time.  Every Worker runs timeCounter on the thread it was moved to.     *)
(* The worker's signals timeProgress and finished are connected to slots   *)
(* of the window, an object of the UI thread, so Qt posts each emission to *)
(* the UI thread's event queue and the slots run there later, in the order *)
(* of emission (variable queue).                                           *)
(*                                                                         *)
(* Time.  The unit of time is one sleep period of the worker (0.5 s).      *)
(* elapsed[w] is time.time() - start_time of worker w, in that unit, and   *)
(* the value carried by a timeProgress event is kept in the same unit (the *)
(* code divides by 60 to get minutes; a limit of l minutes is              *)
(* l * TicksPerMinute units).  The clock is observed to advance only       *)
(* across time.sleep, by SleepTicks plus an overrun of 0..MaxOverrun.      *)
(***************************************************************************)
EXTENDS Integers, Sequences, FiniteSets, TLC

\* ---------------------------------------------------------------- bounds
\* Number of Worker objects that can be alive at once.  The number of runs
\* is not bounded: a Worker that has returned from timeCounter and whose
\* signals have all been delivered is unreachable, and its slot is reused.
MaxWorkers == 2
\* Number of posted, not yet delivered signals the UI event queue may hold.
MaxQueue == 2
\* Largest amount, in sleep periods, by which one time.sleep(0.5) overruns.
MaxOverrun == 1
\* Time-limit inputs explored besides the default: 1..MaxLimit minutes.
MaxLimit == 1
\* Arguments given to the indicator when it is driven on its own:
\* 0..MaxPBValue, besides the sample values of PBSamples.
MaxPBValue == 1
\* Sleep periods per minute.  The program's ratio is 60 s / 0.5 s = 120; the
\* model scales it down, so a run of l minutes is l * TicksPerMinute iterations.
TicksPerMinute == 1

\* ------------------------------------------------------ program constants
\* self.time_limit = 20 in PomodoroWindow.__init__
DefaultTimeLimit == 20
\* time_limit_input.setMinimum(TIME_LIMIT_MINIMUM): 1 minute
TIME_LIMIT_MINIMUM == 1
\* time_limit_input.setMaximum(TIME_LIMIT_MAXIMUM): 120 minutes
TIME_LIMIT_MAXIMUM == 120
\* time.sleep(0.5): one sleep period
SleepTicks == 1
\* QRoundProgressBar(start_value = 0, ...) and set_range(0, ...)
RangeStart == 0

\* PositionTop = POSITION_TOP: 90 degrees
POSITION_TOP == 90
\* FULL_ANGLE: the arc is the fraction "* 360"
FULL_ANGLE == 360
\* PYQT_ANGLE_PRECISION: QPainter.drawArc takes angles in 1/16 of a degree
PYQT_ANGLE_PRECISION == 16

START_BUTTON_LABEL == "Start"
STOP_BUTTON_LABEL == "Stop"

Workers == 1..MaxWorkers
NoWorker == 0

\* Mutant of Limits: the spin box keeps QSpinBox's default minimum of 0.
Limits_fromZero ==
    {l \in 0..TIME_LIMIT_MAXIMUM : l <= MaxLimit \/ l = DefaultTimeLimit}

\* Arguments given to the indicator when it is driven on its own: the small
\* ones and the ones of the indicator's documented examples.
PBSamples == {5, 25, 50, 100}
PBValues == (0..MaxPBValue) \cup PBSamples

\* Values the user can bring the spin box to.
Limits ==
    {l \in TIME_LIMIT_MINIMUM..TIME_LIMIT_MAXIMUM : l <= MaxLimit \/ l = DefaultTimeLimit}

VARIABLES
    \* PomodoroWindow
    time_limit,          \* self.time_limit (= time_limit_input.value())
    timer_started,       \* self.timer_started
    stopped_forcefully,  \* self.stopped_forcefully
    btn_enabled,         \* start_button.isEnabled()
    btn_text,            \* start_button.text()
    timer_worker,        \* self.timer_worker: the Worker last constructed
    app,                 \* "running" | "closed": app.exec_() has returned
                         \* | "crashed": an exception left paintEvent
    \* QRoundProgressBar
    start_value,         \* _start_value (minutes)
    end_value,           \* _end_value (minutes)
    value,               \* _value (sleep periods, see Time above)
    repaint,             \* update() has scheduled a paint event
    \* Worker w and the thread running its timeCounter
    pc,                  \* position of w's thread
    w_time_limit,        \* w.time_limit
    is_running,          \* w.is_running
    elapsed,             \* time.time() - start_time inside timeCounter
    \* UI thread's event queue: posted signals of the workers
    queue,
    \* history, written but never read by the program
    exit_reason,         \* why w's loop exited: "none" | "limit" | "stop"
    finished_emits,      \* number of finished emissions of w
    progress_after_stop, \* timeProgress emissions of w after w.stop()
    late_progress,       \* timeProgress of w emitted or handled after finished
    stop_pressed,        \* Stop was pressed while w was timer_worker
    ended,               \* w's finished signal has been handled
    notified             \* notifications shown when handling w's finished

uiVars == <<time_limit, timer_started, stopped_forcefully, btn_enabled, btn_text,
            timer_worker, start_value, end_value, value, repaint>>
uiHistory == <<stop_pressed, ended, notified>>
workerLocal == <<pc, w_time_limit, elapsed>>
workerHistory == <<exit_reason, finished_emits, progress_after_stop>>
\* Everything but the indicator and app.
hostVars == <<time_limit, timer_started, stopped_forcefully, btn_enabled, btn_text,
              timer_worker, uiHistory, workerLocal, workerHistory, is_running,
              queue, late_progress>>
vars == <<uiVars, uiHistory, workerLocal, workerHistory, is_running, queue,
          late_progress, app>>

\* ------------------------------------------------------------------ Init
Init ==
    /\ time_limit = DefaultTimeLimit
    /\ timer_started = FALSE
    /\ stopped_forcefully = FALSE
    /\ btn_enabled = TRUE
    /\ btn_text = START_BUTTON_LABEL
    /\ timer_worker = NoWorker
    /\ app = "running"
    /\ start_value = RangeStart
    /\ end_value = DefaultTimeLimit
    /\ value = 0
    /\ repaint = TRUE
    /\ pc = [w \in Workers |-> "none"]
    /\ w_time_limit = [w \in Workers |-> 0]
    /\ is_running = [w \in Workers |-> FALSE]
    /\ elapsed = [w \in Workers |-> 0]
    /\ queue = <<>>
    /\ exit_reason = [w \in Workers |-> "none"]
    /\ finished_emits = [w \in Workers |-> 0]
    /\ progress_after_stop = [w \in Workers |-> 0]
    /\ late_progress = [w \in Workers |-> 0]
    /\ stop_pressed = [w \in Workers |-> FALSE]
    /\ ended = [w \in Workers |-> FALSE]
    /\ notified = [w \in Workers |-> 0]

\* ------------------------------------------------- QRoundProgressBar
\* QWidget.update(): a paint event is scheduled (several calls, one event).
update ==
    repaint' = TRUE

\* set_range(start, end): both bounds, then update().
set_range(start, end) ==
    /\ start_value' = start
    /\ end_value' = end
    /\ update

\* value.setter: the value, then update().
value_setter(val) ==
    /\ value' = val
    /\ update

\* start_value.setter: the bound alone.
start_value_setter(val) ==
    start_value' = val

\* end_value.setter: the bound alone.
end_value_setter(val) ==
    end_value' = val

\* int(x) of Python for the quotient n / d: truncation towards zero.
TruncDiv(n, d) ==
    LET q == (IF n < 0 THEN -n ELSE n) \div (IF d < 0 THEN -d ELSE d)
    IN  IF (n < 0) = (d < 0) THEN q ELSE -q

\* drawProgressBar: startAngle = self.PositionTop * PYQT_ANGLE_PRECISION
startAngle == POSITION_TOP * PYQT_ANGLE_PRECISION

\* The span measured from zero, not from the start of the range.
endAngle_fromZero ==
    -TruncDiv(value * FULL_ANGLE * PYQT_ANGLE_PRECISION,
              (end_value - start_value) * TicksPerMinute)

\* drawProgressBar: endAngle = -int(((value - start_value) /
\* (end_value - start_value)) * FULL_ANGLE * PYQT_ANGLE_PRECISION), for a range
\* that is not empty.  The value is in sleep periods, the range in minutes;
\* the quotient is taken exactly (no floating-point rounding).
endAngle ==
    -TruncDiv((value - start_value * TicksPerMinute) * FULL_ANGLE * PYQT_ANGLE_PRECISION,
              (end_value - start_value) * TicksPerMinute)

\* paintEvent, run by the UI thread for a scheduled paint: drawWidget,
\* drawProgressBar.  With end_value = start_value the division raises
\* ZeroDivisionError, which leaves paintEvent unhandled.
paintEvent ==
    /\ app = "running"
    /\ repaint
    /\ IF end_value = start_value
          THEN /\ app' = "crashed"
               /\ UNCHANGED repaint
          ELSE \* painter.drawArc(adjustedRect, startAngle, endAngle)
               /\ repaint' = FALSE
               /\ UNCHANGED app
    /\ UNCHANGED <<time_limit, timer_started, stopped_forcefully, btn_enabled,
                   btn_text, timer_worker, start_value, end_value, value,
                   uiHistory, workerLocal, workerHistory, is_running, queue,
                   late_progress>>

\* ------------------------------------------------------------ Worker
\* Slot w holds no live Worker: none was constructed in it, or the one that was
\* has returned from timeCounter and has no signal in flight.
FreeSlot(w) ==
    /\ pc[w] \in {"none", "done"}
    /\ \A i \in 1..Len(queue) : queue[i].w # w

\* The slot the next Worker is constructed in.
NewWorker(w) ==
    /\ FreeSlot(w)
    /\ \A u \in Workers : u < w => ~FreeSlot(u)

\* Mutant of Worker_init: the flag is not set at construction.
Worker_init_notRunning(w, limit) ==
    /\ w_time_limit' = [w_time_limit EXCEPT ![w] = limit]
    /\ is_running' = [is_running EXCEPT ![w] = FALSE]
    /\ exit_reason' = [exit_reason EXCEPT ![w] = "none"]
    /\ finished_emits' = [finished_emits EXCEPT ![w] = 0]
    /\ progress_after_stop' = [progress_after_stop EXCEPT ![w] = 0]
    /\ late_progress' = [late_progress EXCEPT ![w] = 0]
    /\ stop_pressed' = [stop_pressed EXCEPT ![w] = FALSE]
    /\ ended' = [ended EXCEPT ![w] = FALSE]
    /\ notified' = [notified EXCEPT ![w] = 0]

\* Worker.__init__(time_limit): a fresh object, with a fresh history.
Worker_init(w, limit) ==
    /\ w_time_limit' = [w_time_limit EXCEPT ![w] = limit]
    /\ is_running' = [is_running EXCEPT ![w] = TRUE]
    /\ exit_reason' = [exit_reason EXCEPT ![w] = "none"]
    /\ finished_emits' = [finished_emits EXCEPT ![w] = 0]
    /\ progress_after_stop' = [progress_after_stop EXCEPT ![w] = 0]
    /\ late_progress' = [late_progress EXCEPT ![w] = 0]
    /\ stop_pressed' = [stop_pressed EXCEPT ![w] = FALSE]
    /\ ended' = [ended EXCEPT ![w] = FALSE]
    /\ notified' = [notified EXCEPT ![w] = 0]

\* configure_worker(): self.timer_worker = Worker(self.time_limit), moved to a
\* new QThread whose started signal runs timeCounter.
configure_worker(w) ==
    /\ timer_worker' = w
    /\ Worker_init(w, time_limit)

\* init_timer()
init_timer(w) ==
    /\ timer_started' = TRUE
    /\ configure_worker(w)

\* Mutant of stop: the flag is flipped instead of cleared.
stop_toggle(w) ==
    is_running' = [is_running EXCEPT ![w] = ~@]

\* Worker.stop()
stop(w) ==
    is_running' = [is_running EXCEPT ![w] = FALSE]

\* end_time = self.time_limit*60, in sleep periods
end_time(w) == w_time_limit[w] * TicksPerMinute

\* Mutant of LoopCondition: the loop tests the time alone and never looks at
\* is_running.
LoopCondition_timeOnly(w) == elapsed[w] < end_time(w)

\* The while condition of timeCounter; `and` reads is_running only when the
\* time test passed.
LoopCondition(w) == elapsed[w] < end_time(w) /\ is_running[w]

\* timeCounter is entered on the worker's thread: start_time = time.time().
timeCounter_enter(w) ==
    /\ pc[w] = "started"
    /\ pc' = [pc EXCEPT ![w] = "check"]
    /\ elapsed' = [elapsed EXCEPT ![w] = 0]
    /\ UNCHANGED <<uiVars, uiHistory, w_time_limit, workerHistory, is_running,
                   queue, late_progress, app>>

\* One evaluation of the while condition.
timeCounter_check(w) ==
    /\ pc[w] = "check"
    /\ IF LoopCondition(w)
          THEN /\ pc' = [pc EXCEPT ![w] = "sleep"]
               /\ UNCHANGED exit_reason
          ELSE /\ pc' = [pc EXCEPT ![w] = "finish"]
               /\ exit_reason' = [exit_reason EXCEPT ![w] =
                      IF elapsed[w] < end_time(w) THEN "stop" ELSE "limit"]
    /\ UNCHANGED <<uiVars, uiHistory, w_time_limit, elapsed, finished_emits,
                   progress_after_stop, is_running, queue, late_progress, app>>

\* Mutant of timeCounter_sleep: start_time is read again in every iteration, so
\* the elapsed time never accumulates.
timeCounter_sleep_restart(w) ==
    /\ pc[w] = "sleep"
    /\ \E overrun \in 0..MaxOverrun :
          elapsed' = [elapsed EXCEPT ![w] = SleepTicks + overrun]
    /\ pc' = [pc EXCEPT ![w] = "emit"]
    /\ UNCHANGED <<uiVars, uiHistory, w_time_limit, workerHistory, is_running,
                   queue, late_progress, app>>

\* time.sleep(0.5): the clock has advanced by the period plus an overrun.
timeCounter_sleep(w) ==
    /\ pc[w] = "sleep"
    /\ \E overrun \in 0..MaxOverrun :
          elapsed' = [elapsed EXCEPT ![w] = @ + SleepTicks + overrun]
    /\ pc' = [pc EXCEPT ![w] = "emit"]
    /\ UNCHANGED <<uiVars, uiHistory, w_time_limit, workerHistory, is_running,
                   queue, late_progress, app>>

\* Mutant of timeCounter_emit: the worker's thread sets the indicator's value
\* itself instead of emitting a signal.
timeCounter_emit_direct(w) ==
    /\ pc[w] = "emit"
    /\ value_setter(elapsed[w])
    /\ pc' = [pc EXCEPT ![w] = "check"]
    /\ progress_after_stop' = [progress_after_stop EXCEPT ![w] =
           IF is_running[w] THEN @ ELSE @ + 1]
    /\ UNCHANGED <<time_limit, timer_started, stopped_forcefully, btn_enabled,
                   btn_text, timer_worker, start_value, end_value, uiHistory,
                   w_time_limit, elapsed, exit_reason, finished_emits,
                   is_running, queue, late_progress, app>>

\* self.timeProgress.emit((time.time() - start_time) / 60): posted to the UI
\* thread's queue.
timeCounter_emit(w) ==
    /\ pc[w] = "emit"
    /\ Len(queue) < MaxQueue
    /\ queue' = Append(queue, [signal |-> "timeProgress", w |-> w, arg |-> elapsed[w]])
    /\ pc' = [pc EXCEPT ![w] = "check"]
    /\ progress_after_stop' = [progress_after_stop EXCEPT ![w] =
           IF is_running[w] THEN @ ELSE @ + 1]
    /\ late_progress' = [late_progress EXCEPT ![w] =
           IF finished_emits[w] > 0 THEN @ + 1 ELSE @]
    /\ UNCHANGED <<uiVars, uiHistory, w_time_limit, elapsed, exit_reason,
                   finished_emits, is_running, app>>

\* Mutant of timeCounter_finish: finished is emitted only when the loop ran to
\* the limit.
timeCounter_finish_unlessStopped(w) ==
    /\ pc[w] = "finish"
    /\ Len(queue) < MaxQueue
    /\ IF exit_reason[w] = "stop"
          THEN UNCHANGED <<queue, finished_emits>>
          ELSE /\ queue' = Append(queue, [signal |-> "finished", w |-> w, arg |-> 0])
               /\ finished_emits' = [finished_emits EXCEPT ![w] = @ + 1]
    /\ pc' = [pc EXCEPT ![w] = "done"]
    /\ elapsed' = [elapsed EXCEPT ![w] = 0]
    /\ UNCHANGED <<uiVars, uiHistory, w_time_limit, exit_reason,
                   progress_after_stop, is_running, late_progress, app>>

\* self.finished.emit(), after the loop; timeCounter returns and its locals
\* (start_time, end_time) are gone.
timeCounter_finish(w) ==
    /\ pc[w] = "finish"
    /\ Len(queue) < MaxQueue
    /\ queue' = Append(queue, [signal |-> "finished", w |-> w, arg |-> 0])
    /\ pc' = [pc EXCEPT ![w] = "done"]
    /\ finished_emits' = [finished_emits EXCEPT ![w] = @ + 1]
    /\ elapsed' = [elapsed EXCEPT ![w] = 0]
    /\ UNCHANGED <<uiVars, uiHistory, w_time_limit, exit_reason,
                   progress_after_stop, is_running, late_progress, app>>

\* Every step of Worker.timeCounter, all on w's thread.
timeCounter(w) ==
    \/ timeCounter_enter(w)
    \/ timeCounter_check(w)
    \/ timeCounter_sleep(w)
    \/ timeCounter_emit(w)
    \/ timeCounter_finish(w)

\* ------------------------------------------------------ PomodoroWindow
\* stop_timer(): timer_started = False; timer_worker.stop(); timer_thread.quit()
stop_timer ==
    /\ timer_started' = FALSE
    /\ stop(timer_worker)

\* time_limit_changed(), on valueChanged of the spin box with new value v.
time_limit_changed(v) ==
    /\ app = "running"
    /\ v # time_limit
    /\ time_limit' = v
    /\ set_range(RangeStart, v)
    /\ UNCHANGED <<timer_started, stopped_forcefully, btn_enabled, btn_text,
                   timer_worker, value, uiHistory, workerLocal, workerHistory,
                   is_running, queue, late_progress, app>>

\* Mutant of timer_btn_clicked: the Stop branch leaves the button enabled.
timer_btn_clicked_stopLeavesEnabled ==
    /\ app = "running"
    /\ btn_enabled
    /\ IF ~timer_started
          THEN \E w \in Workers :
                  /\ NewWorker(w)
                  /\ init_timer(w)
                  /\ btn_text' = STOP_BUTTON_LABEL
                  /\ pc' = [pc EXCEPT ![w] = "started"]
                  /\ btn_enabled' = TRUE
                  /\ UNCHANGED stopped_forcefully
          ELSE /\ btn_enabled' = TRUE
               /\ stopped_forcefully' = TRUE
               /\ stop_timer
               /\ stop_pressed' = [stop_pressed EXCEPT ![timer_worker] = TRUE]
               /\ UNCHANGED <<btn_text, timer_worker, w_time_limit, pc, ended,
                              notified, workerHistory, late_progress>>
    /\ UNCHANGED <<time_limit, start_value, end_value, value, repaint,
                   elapsed, queue, app>>

\* Mutant of timer_btn_clicked: the Stop branch does not set stopped_forcefully.
timer_btn_clicked_noFlag ==
    /\ app = "running"
    /\ btn_enabled
    /\ IF ~timer_started
          THEN \E w \in Workers :
                  /\ NewWorker(w)
                  /\ init_timer(w)
                  /\ btn_text' = STOP_BUTTON_LABEL
                  /\ pc' = [pc EXCEPT ![w] = "started"]
                  /\ btn_enabled' = TRUE
                  /\ UNCHANGED stopped_forcefully
          ELSE /\ btn_enabled' = FALSE
               /\ stop_timer
               /\ stop_pressed' = [stop_pressed EXCEPT ![timer_worker] = TRUE]
               /\ UNCHANGED <<stopped_forcefully, btn_text, timer_worker,
                              w_time_limit, pc, ended, notified, workerHistory,
                              late_progress>>
    /\ UNCHANGED <<time_limit, start_value, end_value, value, repaint,
                   elapsed, queue, app>>

\* timer_btn_clicked(): a click on the enabled Start / Stop button.
timer_btn_clicked ==
    /\ app = "running"
    /\ btn_enabled
    /\ IF ~timer_started
          THEN \E w \in Workers :
                  /\ NewWorker(w)
                  /\ init_timer(w)
                  /\ btn_text' = STOP_BUTTON_LABEL
                  \* timer_thread.start(): the thread exists, timeCounter not yet entered
                  /\ pc' = [pc EXCEPT ![w] = "started"]
                  /\ btn_enabled' = TRUE
                  /\ UNCHANGED stopped_forcefully
          ELSE /\ btn_enabled' = FALSE
               /\ stopped_forcefully' = TRUE
               /\ stop_timer
               /\ stop_pressed' = [stop_pressed EXCEPT ![timer_worker] = TRUE]
               /\ UNCHANGED <<btn_text, timer_worker, w_time_limit, pc, ended,
                              notified, workerHistory, late_progress>>
    /\ UNCHANGED <<time_limit, start_value, end_value, value, repaint,
                   elapsed, queue, app>>

\* time_progress(time_progressed): slot of timeProgress, run by the UI thread
\* for the signal at the head of its queue.
time_progress ==
    /\ app = "running"
    /\ queue # <<>>
    /\ Head(queue).signal = "timeProgress"
    /\ value_setter(Head(queue).arg)
    /\ queue' = Tail(queue)
    /\ late_progress' = [late_progress EXCEPT ![Head(queue).w] =
           IF ended[Head(queue).w] THEN @ + 1 ELSE @]
    /\ UNCHANGED <<time_limit, timer_started, stopped_forcefully, btn_enabled,
                   btn_text, timer_worker, start_value, end_value,
                   uiHistory, workerLocal, workerHistory, is_running, app>>

\* Mutant of timer_ended: stopped_forcefully is not reset.
timer_ended_keepFlag ==
    /\ app = "running"
    /\ queue # <<>>
    /\ Head(queue).signal = "finished"
    /\ queue' = Tail(queue)
    /\ btn_text' = START_BUTTON_LABEL
    /\ btn_enabled' = TRUE
    /\ stop_timer
    /\ notified' = [notified EXCEPT ![Head(queue).w] =
           IF ~stopped_forcefully THEN @ + 1 ELSE @]
    /\ ended' = [ended EXCEPT ![Head(queue).w] = TRUE]
    /\ UNCHANGED <<stopped_forcefully, time_limit, timer_worker, start_value,
                   end_value, value, repaint, stop_pressed, workerLocal, workerHistory,
                   late_progress, app>>

\* timer_ended(): slot of finished.
timer_ended ==
    /\ app = "running"
    /\ queue # <<>>
    /\ Head(queue).signal = "finished"
    /\ queue' = Tail(queue)
    /\ btn_text' = START_BUTTON_LABEL
    /\ btn_enabled' = TRUE
    /\ stop_timer
    /\ notified' = [notified EXCEPT ![Head(queue).w] =
           IF ~stopped_forcefully THEN @ + 1 ELSE @]
    /\ stopped_forcefully' = FALSE
    /\ ended' = [ended EXCEPT ![Head(queue).w] = TRUE]
    /\ UNCHANGED <<time_limit, timer_worker, start_value, end_value, value,
                   repaint, stop_pressed, workerLocal, workerHistory, late_progress, app>>

\* The window is closed (PomodoroWindow overrides no closeEvent and AppContext.run
\* does nothing after exec_): the last window is gone, app.exec_() returns and
\* no further event is delivered.  The worker's thread is left as it is; the
\* end of the process is that thread taking no further step.
closeEvent ==
    /\ app = "running"
    /\ app' = "closed"
    /\ UNCHANGED <<uiVars, uiHistory, workerLocal, workerHistory, is_running,
                   queue, late_progress>>

\* ------------------------------------- the indicator driven on its own
\* QRoundProgressBar(start_value, end_value, value) shown in a window, with no
\* countdown going on.
IndicatorInit ==
    /\ time_limit = DefaultTimeLimit
    /\ timer_started = FALSE
    /\ stopped_forcefully = FALSE
    /\ btn_enabled = TRUE
    /\ btn_text = START_BUTTON_LABEL
    /\ timer_worker = NoWorker
    /\ app = "running"
    /\ start_value \in PBValues
    /\ end_value \in PBValues
    /\ value \in {v * TicksPerMinute : v \in PBValues}
    /\ repaint = TRUE
    /\ pc = [w \in Workers |-> "none"]
    /\ w_time_limit = [w \in Workers |-> 0]
    /\ is_running = [w \in Workers |-> FALSE]
    /\ elapsed = [w \in Workers |-> 0]
    /\ queue = <<>>
    /\ exit_reason = [w \in Workers |-> "none"]
    /\ finished_emits = [w \in Workers |-> 0]
    /\ progress_after_stop = [w \in Workers |-> 0]
    /\ late_progress = [w \in Workers |-> 0]
    /\ stop_pressed = [w \in Workers |-> FALSE]
    /\ ended = [w \in Workers |-> FALSE]
    /\ notified = [w \in Workers |-> 0]

\* A call of set_range(start, end).
Indicator_set_range(start, end) ==
    /\ app = "running"
    /\ set_range(start, end)
    /\ UNCHANGED <<value, hostVars, app>>

\* An assignment bar.value = val (val in minutes).
Indicator_value(val) ==
    /\ app = "running"
    /\ value_setter(val * TicksPerMinute)
    /\ UNCHANGED <<start_value, end_value, hostVars, app>>

\* An assignment bar.start_value = val.
Indicator_start_value(val) ==
    /\ app = "running"
    /\ start_value_setter(val)
    /\ UNCHANGED <<end_value, value, repaint, hostVars, app>>

\* An assignment bar.end_value = val.
Indicator_end_value(val) ==
    /\ app = "running"
    /\ end_value_setter(val)
    /\ UNCHANGED <<start_value, value, repaint, hostVars, app>>

\* A call of one of the indicator's mutators.
IndicatorMutator ==
    \/ \E start, end \in PBValues : Indicator_set_range(start, end)
    \/ \E val \in PBValues : Indicator_value(val)
    \/ \E val \in PBValues : Indicator_start_value(val)
    \/ \E val \in PBValues : Indicator_end_value(val)

IndicatorNext ==
    \/ IndicatorMutator
    \/ paintEvent

IndicatorSpec == IndicatorInit /\ [][IndicatorNext]_vars

\* --------------------------------------------------------- specification
UIStep ==
    \/ timer_btn_clicked
    \/ time_progress
    \/ timer_ended
    \/ \E v \in Limits : time_limit_changed(v)
    \/ paintEvent

WorkerStep == \E w \in Workers : timeCounter(w)

Next ==
    \/ UIStep
    \/ WorkerStep
    \/ closeEvent

Spec == Init /\ [][Next]_vars

\* The worker threads are scheduled and the UI event loop delivers what is
\* posted to it; the user owes no press, edit or close.
Fairness ==
    /\ \A w \in Workers : WF_vars(timeCounter(w))
    /\ WF_vars(time_progress)
    /\ WF_vars(timer_ended)

LiveSpec == Spec /\ Fairness

TypeOK ==
    /\ time_limit \in Limits
    /\ timer_started \in BOOLEAN
    /\ stopped_forcefully \in BOOLEAN
    /\ btn_enabled \in BOOLEAN
    /\ btn_text \in {START_BUTTON_LABEL, STOP_BUTTON_LABEL}
    /\ timer_worker \in Workers \cup {NoWorker}
    /\ app \in {"running", "closed", "crashed"}
    /\ pc \in [Workers -> {"none", "started", "check", "sleep", "emit", "finish", "done"}]
    /\ is_running \in [Workers -> BOOLEAN]
    /\ Len(queue) <= MaxQueue

\* ----------------------------------------------------------- vocabulary
\* w's thread is inside the countdown loop of timeCounter.
InLoop(w) == pc[w] \in {"check", "sleep", "emit"}

\* A Worker has been constructed in slot w and has not yet emitted finished.
Unfinished(w) == pc[w] \in {"started", "check", "sleep", "emit", "finish"}

\* Run w is under way for the host: started, its finished not yet handled.
RunActive(w) == pc[w] # "none" /\ ~ended[w]

\* The host is idle.
Idle == ~timer_started /\ btn_enabled /\ btn_text = START_BUTTON_LABEL

\* The UI thread is about to run timer_ended for w's finished signal.
AtTimerEnded(w) ==
    /\ app = "running"
    /\ queue # <<>>
    /\ Head(queue).signal = "finished"
    /\ Head(queue).w = w

\* ------------------------------------------------------------------- C1
\* C1: a worker emits finished exactly once per run: never twice, and once it
\* has left timeCounter (by the limit or by stop()) it has emitted it.
C1_FinishedExactlyOnce ==
    \A w \in Workers :
        /\ finished_emits[w] <= 1
        /\ pc[w] = "done" => finished_emits[w] = 1

\* A run that left the loop on the stop request and has emitted finished.
C1_Witness ==
    \E w \in Workers :
        pc[w] = "done" /\ exit_reason[w] = "stop" /\ finished_emits[w] = 1

\* ------------------------------------------------------------------- C2
\* C2: after stop() a worker emits at most one more timeProgress before its
\* finished, and no timeProgress of a run is emitted or handled after the
\* run's finished.
C2_AtMostOneProgressAfterStop ==
    \A w \in Workers :
        /\ progress_after_stop[w] <= 1
        /\ late_progress[w] = 0

\* Stop came during a sleep: one more timeProgress was emitted, then finished
\* was emitted and handled.
C2_Witness ==
    \E w \in Workers :
        progress_after_stop[w] = 1 /\ stop_pressed[w] /\ ended[w]

\* ------------------------------------------------------------------- C3
\* C3: handling a run's finished shows the notification iff Stop was not
\* pressed for that run: never after a Stop press, exactly once otherwise.
C3_NotifyIffNotStopped ==
    \A w \in Workers :
        /\ notified[w] <= 1
        /\ stop_pressed[w] => notified[w] = 0
        /\ ended[w] /\ ~stop_pressed[w] => notified[w] = 1

\* A run whose loop ended at the limit, whose Stop press came after that, and
\* whose finished was handled without a notification.
C3_Witness ==
    \E w \in Workers :
        ended[w] /\ stop_pressed[w] /\ exit_reason[w] = "limit" /\ notified[w] = 0

\* ------------------------------------------------------------------- C4
\* C4: at most one Worker at a time is constructed and has not yet emitted
\* finished; in particular at most one is inside its countdown loop.
C4_AtMostOneWorker ==
    /\ Cardinality({w \in Workers : Unfinished(w)}) <= 1
    /\ Cardinality({w \in Workers : InLoop(w)}) <= 1

\* A later run has just been started: the indicator still shows progress of an
\* earlier run, whose worker has finished.
C4_Witness ==
    \E w \in Workers : pc[w] = "started" /\ value > 0 /\ timer_started

\* ------------------------------------------------------------------- C5
\* C5: every elapsed value carried by a timeProgress event is within
\* 0..limit of the worker that emitted it.
C5_ElapsedWithinLimit ==
    \A i \in 1..Len(queue) :
        queue[i].signal = "timeProgress" =>
            /\ 0 <= queue[i].arg
            /\ queue[i].arg <= end_time(queue[i].w)

\* ------------------------------------------------------------------- C6
\* C6: under fair scheduling of the worker threads and of the UI's delivery
\* of signals, every run the host has started has its finished handled with
\* the host back to idle, unless the window is closed first.
C6_RunEventuallyEnds ==
    timer_started ~>
        (app = "closed" \/ (Idle /\ timer_worker \in Workers /\ ended[timer_worker]))

\* Stop was pressed before the worker reported any progress at all (the
\* indicator never moved), and the run was ended with the host idle.
C6_Witness ==
    \E w \in Workers :
        ended[w] /\ Idle /\ stop_pressed[w] /\ exit_reason[w] = "stop" /\ value = 0

\* ------------------------------------------------------------------- C7
\* C7: once the window has been closed, a worker inside its countdown loop
\* has been told to stop (is_running cleared).
C7_StoppedOnClose ==
    app = "closed" => \A w \in Workers : InLoop(w) => ~is_running[w]

\* ------------------------------------------------------------------- C8
\* C8 as claimed: when the host handles a run's finished, stopped_forcefully
\* is true exactly when the loop exited on the stop request.
C8_FlagIsExitReason ==
    \A w \in Workers :
        AtTimerEnded(w) => (stopped_forcefully <=> exit_reason[w] = "stop")

\* C8 as amended: when the host handles a run's finished, stopped_forcefully
\* is true exactly when Stop was pressed for that run; it is true whenever the
\* loop exited on the stop request, and false only if it exited at the limit.
C8_FlagIsStopPressed ==
    \A w \in Workers :
        AtTimerEnded(w) =>
            /\ stopped_forcefully <=> stop_pressed[w]
            /\ exit_reason[w] = "stop" => stopped_forcefully
            /\ ~stopped_forcefully => exit_reason[w] = "limit"

\* The finished of a run that exited on the stop request is about to be handled.
C8_Witness ==
    \E w \in Workers :
        AtTimerEnded(w) /\ exit_reason[w] = "stop" /\ stopped_forcefully

\* ------------------------------------------------------------------- C9
\* C9: while a run is under way, the host's time_limit and the indicator's
\* end value equal the limit its worker was constructed with.
C9_LimitFixedDuringRun ==
    \A w \in Workers :
        RunActive(w) => time_limit = w_time_limit[w] /\ end_value = w_time_limit[w]

\* ------------------------------------------------------------------ C10
\* C10: a step of a worker's thread changes no state of the UI thread and does
\* not write is_running; a handler of the UI thread touches an existing worker
\* only through its is_running flag (it may also construct a new Worker).
C10_ThreadFrames ==
    [][ /\ WorkerStep => UNCHANGED <<uiVars, uiHistory, is_running>>
        /\ UIStep => \A w \in Workers :
              /\ pc'[w] = pc[w] \/ pc'[w] = "started"
              /\ pc'[w] = pc[w] =>
                    /\ elapsed'[w] = elapsed[w]
                    /\ w_time_limit'[w] = w_time_limit[w] ]_vars

\* A worker has emitted a timeProgress the UI thread has not handled yet: the
\* indicator still shows the older value.
C10_Witness ==
    \E i \in 1..Len(queue) :
        /\ queue[i].signal = "timeProgress"
        /\ queue[i].arg # value
        /\ is_running[queue[i].w]

\* ------------------------------------------------------------------ C11
\* C11: a second stop() on a worker (the one timer_ended makes after a Stop
\* press made the first) changes nothing: the worker's state is what the first
\* call left, no further finished is emitted and no notification is shown.
C11_StopIdempotent ==
    [][ \A w \in Workers :
          (stop_pressed[w] /\ ~ended[w] /\ ended'[w]) =>
              /\ ~is_running[w] /\ ~is_running'[w]
              /\ pc'[w] = pc[w]
              /\ elapsed'[w] = elapsed[w]
              /\ finished_emits'[w] = finished_emits[w]
              /\ finished_emits'[w] = 1
              /\ notified'[w] = 0
              /\ \A i \in 1..Len(queue') : queue'[i].w # w ]_vars

\* stop() has been called twice on a worker: by the Stop press and by
\* timer_ended.
C11_Witness ==
    \E w \in Workers :
        stop_pressed[w] /\ ended[w] /\ ~is_running[w] /\ pc[w] = "done"

\* ------------------------------------------------------------------ C12
\* C12: is_running of a Worker is True from its construction and, for the
\* same Worker, only ever goes from True to False.
C12_FlagOneWay ==
    [][ \A w \in Workers :
          /\ (pc[w] # "started" /\ pc'[w] = "started") => is_running'[w]
          /\ (~is_running[w] /\ is_running'[w]) =>
                 (pc[w] \in {"none", "done"} /\ pc'[w] = "started") ]_vars

\* The flag of a worker inside its loop has been cleared.
C12_Witness ==
    \E w \in Workers : InLoop(w) /\ ~is_running[w]

\* ------------------------------------------------------------------ C16
\* C16: in every state the host can reach, the indicator's range has
\* end > start.
C16_RangeNotDegenerate ==
    end_value > start_value

\* The range has been changed by an edit of the time limit during a run.
C16_Witness ==
    /\ end_value # DefaultTimeLimit
    /\ timer_started
    /\ \E w \in Workers : InLoop(w) /\ w_time_limit[w] # end_value

\* ------------------------------------------------------------------ C17
\* C17: from a Stop press until that run's finished is handled the button is
\* disabled, and only timer_ended enables a disabled button.
C17_DisabledUntilEnded ==
    /\ [](\A w \in Workers : (stop_pressed[w] /\ ~ended[w]) => ~btn_enabled)
    /\ [][ (~btn_enabled /\ btn_enabled') =>
              \E w \in Workers : ~ended[w] /\ ended'[w] ]_vars

\* Stop has been pressed and the worker has already emitted finished, which
\* is still to be handled: the button is disabled.
C17_Witness ==
    \E w \in Workers :
        stop_pressed[w] /\ ~ended[w] /\ pc[w] = "done" /\ ~btn_enabled

\* ------------------------------------------------------------------ C18
\* C18: whenever a Start press is possible, stopped_forcefully is False.
C18_FlagClearAtStart ==
    (app = "running" /\ btn_enabled /\ ~timer_started) => ~stopped_forcefully

\* A run that was stopped has been ended, and the next Start is possible.
C18_Witness ==
    /\ app = "running" /\ btn_enabled /\ ~timer_started
    /\ \E w \in Workers : stop_pressed[w] /\ ended[w] /\ exit_reason[w] = "stop"

\* ------------------------------------------------------------------ C19
\* C19: in every state the host can reach, the indicator's value lies within
\* its range (the value is kept in sleep periods, the range in minutes).
C19_ValueWithinRange ==
    /\ start_value * TicksPerMinute <= value
    /\ value <= end_value * TicksPerMinute

\* ------------------------------------------------------------------ C13
\* C13: set_range(s, s) does not leave the indicator with end = start (it
\* rejects the range or substitutes a positive span), so that the repaint it
\* schedules cannot divide by zero.
C13_SetRangeRejectsEmpty ==
    [][ (\E s \in PBValues : Indicator_set_range(s, s)) =>
            end_value' # start_value' ]_vars

\* ------------------------------------------------------------------ C14
\* C14: whenever the indicator is about to be painted with start < end and
\* start <= value <= end, the arc starts at 12 o'clock (90 degrees) and its
\* span is clockwise (not positive) and is the fraction
\* (value - start) / (end - start) of the full circle, cut to a whole 1/16 of a
\* degree: nothing for value = start, the full circle for value = end, and
\* 90 degrees for start = 0, end = 100, value = 25.
C14_ArcIsFraction ==
    LET num == value - start_value * TicksPerMinute
        den == (end_value - start_value) * TicksPerMinute
        full == FULL_ANGLE * PYQT_ANGLE_PRECISION
    IN  (/\ app = "running" /\ repaint
         /\ start_value < end_value
         /\ 0 <= num /\ num <= den) =>
            /\ startAngle = 90 * PYQT_ANGLE_PRECISION
            /\ endAngle <= 0
            /\ (-endAngle) * den <= num * full
            /\ num * full < (1 - endAngle) * den
            /\ num = 0 => endAngle = 0
            /\ num = den => endAngle = -(360 * PYQT_ANGLE_PRECISION)
            /\ (start_value = 0 /\ end_value = 100 /\ value = 25 * TicksPerMinute)
                   => endAngle = -(90 * PYQT_ANGLE_PRECISION)

\* The indicator is about to be painted with start = 0, end = 100, value = 25,
\* after the range and the value were set.
C14_Witness ==
    /\ app = "running" /\ repaint
    /\ start_value = 0 /\ end_value = 100 /\ value = 25 * TicksPerMinute
    /\ endAngle = -(90 * PYQT_ANGLE_PRECISION)

\* ------------------------------------------------------------------ C15
\* C15: every mutator of the indicator schedules a repaint and changes only
\* the fields it names: set_range leaves the value, and the value setter
\* leaves the bounds.
C15_MutatorsRepaint ==
    [][ /\ IndicatorMutator => repaint'
        /\ (\E s, e \in PBValues : Indicator_set_range(s, e)) => value' = value
        /\ (\E v \in PBValues : Indicator_value(v)) =>
               (start_value' = start_value /\ end_value' = end_value)
        /\ IndicatorMutator => UNCHANGED <<hostVars, app>> ]_vars

====
